---- MODULE Spec2Model ----
(***************************************************************************)
(* Model of the MLflow export / import tools: export_runs_detailed         *)
(* (src/export_exp.py), import_runs and extract_run_data                   *)
(* (src/import_exp.py).                                                    *)
(*                                                                         *)
(* Text (column names, parameter and tag values) is a sequence of          *)
(* one-character strings, so that startswith, slicing, str() and float()   *)
(* are computed character by character.  A cell value is a record          *)
(*   [kind, neg, whole, frac, s]                                           *)
(* kind "nan"   : float NaN (what pandas reports as null),                 *)
(* kind "int"   : the integer  (-1)^neg * whole,                           *)
(* kind "float" : the number   (-1)^neg * (whole + frac/100),              *)
(* kind "inf"   : float infinity of sign neg,                              *)
(* kind "str"   : the text s.                                              *)
(***************************************************************************)
EXTENDS Integers, Sequences, FiniteSets, TLC

VARIABLES
    \* ---- extract_run_data applied to one row (SpecDecode)
    dec_pc, run_data, dec_metadata, dec_out,
    \* ---- encode then decode of one run (SpecRoundTrip)
    rt_pc, rt_run, rt_row, rt_metadata, rt_out,
    \* ---- export_runs_detailed (SpecExport)
    exp_pc,              \* where the function is: lookup, fetch, write, artifacts, summary, done, not_found, error
    exp_result,          \* "running", then how the function ended: "returned" or "raised"
    experiment_runs,     \* the runs the tracking server holds for the experiment
    page_cap,            \* the most runs the server puts in one page
    include_artifacts,
    page_token, total_runs, detailed_runs_data,
    exp_metadata,        \* the ledger: metadata of export_runs_detailed
    page_requests,       \* number of client.search_runs calls made
    csv_file, metadata_file, summary_file,   \* <<>> while absent, <<content>> once written
    art_i,               \* index of the run whose artifacts are downloaded next
    downloaded,          \* the artifacts copied: pairs <<run index, artifact>>
    exp_errors,          \* the error messages printed, in order
    dl_raised,           \* the server calls of the artifact loop that raised: <<run index, artifact>>, artifact 0 for list_artifacts
    \* ---- import_runs (Spec)
    imp_pc,              \* where the function is: setup, read_csv, load_ledger, rows, summary, done, aborted
    csv_text,            \* the table file: rows of cells [col, val], val the text of the field
    ledger_file,         \* the ledger file: [state, content]
    import_artifacts,
    artifact_tree,       \* per row, the number of files under artifacts/<its run_id>, 0: no such directory;
                         \* at most one row has one
    runs_df, imp_metadata,
    index,               \* index of the row handled next
    imported_runs, failed_runs,
    dest_runs,           \* the runs created in the destination experiment
    imp_log,             \* warnings and errors printed, in order
    raised_rows,         \* the rows during which an exception was raised: [index, at]
    upload_raised,       \* the uploads that raised: <<index, file>>
    summary              \* <<>> until import_runs returns <<the summary>>

decVars == <<dec_pc, run_data, dec_metadata, dec_out>>
rtVars == <<rt_pc, rt_run, rt_row, rt_metadata, rt_out>>
expVars ==
    <<exp_pc, exp_result, experiment_runs, page_cap, include_artifacts, page_token, total_runs,
      detailed_runs_data, exp_metadata, page_requests, csv_file, metadata_file, summary_file,
      art_i, downloaded, exp_errors, dl_raised>>
impVars ==
    <<imp_pc, csv_text, ledger_file, import_artifacts, artifact_tree, runs_df, imp_metadata, index,
      imported_runs, failed_runs, dest_runs, imp_log, raised_rows, upload_raised, summary>>
vars == <<decVars, rtVars, expVars, impVars>>

-----------------------------------------------------------------------------
(* Bounds of the model.                                                    *)

\* columns of a row handed to extract_run_data
MaxCols == 2
\* runs of the exported experiment
MaxRuns == 3
\* largest page the tracking server serves
MaxPageCap == 2
\* page requests of one export followed by the pager specification
MaxRequests == 5
\* rows of the imported table
MaxRows == 2
\* files of a run's artifact directory
MaxFiles == 2

-----------------------------------------------------------------------------
(* Cell values.                                                            *)

NaN == [kind |-> "nan", neg |-> FALSE, whole |-> 0, frac |-> 0, s |-> <<>>]
IntV(neg, w) == [kind |-> "int", neg |-> neg, whole |-> w, frac |-> 0, s |-> <<>>]
FloatV(neg, w, f) == [kind |-> "float", neg |-> neg, whole |-> w, frac |-> f, s |-> <<>>]
InfV(neg) == [kind |-> "inf", neg |-> neg, whole |-> 0, frac |-> 0, s |-> <<>>]
StrV(t) == [kind |-> "str", neg |-> FALSE, whole |-> 0, frac |-> 0, s |-> t]

\* pd.isna(value)
IsNa(v) == v.kind = "nan"

Digits == <<"0", "1", "2", "3", "4", "5", "6", "7", "8", "9">>
IsDigit(c) == \E i \in 1..10 : Digits[i] = c
DigitVal(c) == (CHOOSE i \in 1..10 : Digits[i] = c) - 1
AllDigits(t) == Len(t) > 0 /\ \A i \in 1..Len(t) : IsDigit(t[i])

RECURSIVE DigitsToNat(_)
DigitsToNat(t) ==
    IF t = <<>> THEN 0
    ELSE 10 * DigitsToNat(SubSeq(t, 1, Len(t) - 1)) + DigitVal(t[Len(t)])

RECURSIVE NatToDigits(_)
NatToDigits(n) ==
    IF n < 10 THEN <<Digits[n + 1]>>
    ELSE NatToDigits(n \div 10) \o <<Digits[(n % 10) + 1]>>

\* the two decimals of a float, as Python's repr prints them ("0.5", "0.91", "7.0")
FracToDigits(f) ==
    IF f % 10 = 0 THEN <<Digits[(f \div 10) + 1]>>
    ELSE <<Digits[(f \div 10) + 1], Digits[(f % 10) + 1]>>

SignText(neg) == IF neg THEN <<"-">> ELSE <<>>

\* str(value)
PyStr(v) ==
    CASE v.kind = "str" -> v
      [] v.kind = "int" -> StrV(SignText(v.neg) \o NatToDigits(v.whole))
      [] v.kind = "float" ->
            StrV(SignText(v.neg) \o NatToDigits(v.whole) \o <<".">> \o FracToDigits(v.frac))
      [] v.kind = "inf" -> StrV(SignText(v.neg) \o <<"i", "n", "f">>)
      [] OTHER -> StrV(<<"n", "a", "n">>)

PosOfDot(t) == IF \E i \in 1..Len(t) : t[i] = "." THEN CHOOSE i \in 1..Len(t) : t[i] = "." ELSE 0

\* float(text) of an unsigned decimal literal with at most two decimals
ParseUnsigned(t, neg) ==
    LET d == PosOfDot(t)
        ip == IF d = 0 THEN t ELSE SubSeq(t, 1, d - 1)
        fp == IF d = 0 THEN <<>> ELSE SubSeq(t, d + 1, Len(t))
    IN  IF t = <<"i", "n", "f">> THEN [ok |-> TRUE, val |-> InfV(neg)]
        ELSE IF t = <<"n", "a", "n">> THEN [ok |-> TRUE, val |-> NaN]
        ELSE IF AllDigits(ip) /\ (fp = <<>> \/ AllDigits(fp)) /\ Len(fp) <= 2
             THEN [ok |-> TRUE,
                   val |-> FloatV(neg, DigitsToNat(ip),
                                  IF Len(fp) = 1 THEN 10 * DigitsToNat(fp) ELSE DigitsToNat(fp))]
        ELSE [ok |-> FALSE, val |-> NaN]

\* float(value): ok = FALSE stands for ValueError / TypeError
PyFloat(v) ==
    CASE v.kind = "str" ->
            IF Len(v.s) > 0 /\ v.s[1] = "-" THEN ParseUnsigned(SubSeq(v.s, 2, Len(v.s)), TRUE)
            ELSE ParseUnsigned(v.s, FALSE)
      [] v.kind = "int" -> [ok |-> TRUE, val |-> FloatV(v.neg, v.whole, 0)]
      [] OTHER -> [ok |-> TRUE, val |-> v]

\* float.is_integer()
IsInteger(f) == f.kind = "float" /\ f.frac = 0

\* abs(float) < n, for an integer n > 0
AbsBelow(f, n) == f.kind = "float" /\ f.whole < n

-----------------------------------------------------------------------------
(* Dictionaries and lists.                                                 *)

EmptyDict == [x \in {} |-> NaN]
Put(d, k, v) == [x \in DOMAIN d \cup {k} |-> IF x = k THEN v ELSE d[x]]
InList(x, l) == \E i \in 1..Len(l) : l[i] = x
\* str.startswith and the slice col[n:]
StartsWith(col, p) == Len(col) >= Len(p) /\ SubSeq(col, 1, Len(p)) = p
SliceFrom(col, n) == SubSeq(col, n + 1, Len(col))

-----------------------------------------------------------------------------
(* extract_run_data (src/import_exp.py).                                   *)

system_columns ==
    { <<"r", "u", "n", "_", "i", "d">>,
      <<"e", "x", "p", "e", "r", "i", "m", "e", "n", "t", "_", "i", "d">>,
      <<"u", "s", "e", "r", "_", "i", "d">>,
      <<"s", "t", "a", "r", "t", "_", "t", "i", "m", "e">>,
      <<"e", "n", "d", "_", "t", "i", "m", "e">>,
      <<"s", "t", "a", "t", "u", "s">>,
      <<"l", "i", "f", "e", "c", "y", "c", "l", "e", "_", "s", "t", "a", "g", "e">> }

PrefixParam == <<"p", "a", "r", "a", "m", ":">>
PrefixMetric == <<"m", "e", "t", "r", "i", "c", ":">>
PrefixTag == <<"t", "a", "g", ":">>

\* the three lists of a well-formed ledger
EmptyMetadata == [parameters |-> <<>>, metrics |-> <<>>, tags |-> <<>>]

\* params, metrics, tags being built; warnings: what is printed, in order;
\* route: for each column handled, the branch taken and the group written;
\* raised: an exception left the function (KeyError on a ledger lacking a list)
EmptyOut ==
    [params |-> EmptyDict, metrics |-> EmptyDict, tags |-> EmptyDict,
     warnings |-> <<>>, route |-> EmptyDict, raised |-> FALSE]

Routed(acc, col, rule, group) ==
    [acc EXCEPT !.route = Put(acc.route, col, [rule |-> rule, group |-> group])]
SetParam(acc, col, rule, name, v) ==
    [Routed(acc, col, rule, "params") EXCEPT !.params = Put(acc.params, name, v)]
SetTag(acc, col, rule, name, v) ==
    [Routed(acc, col, rule, "tags") EXCEPT !.tags = Put(acc.tags, name, v)]
Warn(acc, msg, name) ==
    [acc EXCEPT !.warnings = Append(acc.warnings, [msg |-> msg, name |-> name])]

\* lines 177-180 and 189-192: metrics[name] = float(value), a warning when float() raises
SetMetric(acc, col, rule, name, v) ==
    LET f == PyFloat(v)
    IN  IF f.ok
        THEN [Routed(acc, col, rule, "metrics") EXCEPT !.metrics = Put(acc.metrics, name, f.val)]
        ELSE Warn(Routed(acc, col, rule, "none"), "could_not_convert", name)

\* the magnitude bound of line 200
InferThreshold == 1000

\* a plausible slip: the magnitude test taken without abs() and inclusive
InferColumnSignedThreshold(acc, col, v) ==
    LET f == PyFloat(v)
    IN  IF f.ok
        THEN IF IsInteger(f.val) /\ (f.val.neg \/ f.val.whole <= InferThreshold)
             THEN SetParam(acc, col, "infer", col, PyStr(v))
             ELSE Warn([Routed(acc, col, "infer", "metrics")
                            EXCEPT !.metrics = Put(acc.metrics, col, f.val)],
                       "inferring_metric", col)
        ELSE Warn(SetParam(acc, col, "infer", col, PyStr(v)), "inferring_parameter", col)

\* lines 196-207: no prefix, no ledger entry
InferColumn(acc, col, v) ==
    LET f == PyFloat(v)
    IN  IF f.ok
        THEN IF IsInteger(f.val) /\ AbsBelow(f.val, InferThreshold)
             THEN SetParam(acc, col, "infer", col, PyStr(v))
             ELSE Warn([Routed(acc, col, "infer", "metrics")
                            EXCEPT !.metrics = Put(acc.metrics, col, f.val)],
                       "inferring_metric", col)
        ELSE Warn(SetParam(acc, col, "infer", col, PyStr(v)), "inferring_parameter", col)

\* lines 184-195: metadata[key] raises KeyError when the loaded ledger lacks the list
LedgerColumn(acc, col, v, metadata) ==
    IF "parameters" \notin DOMAIN metadata THEN [acc EXCEPT !.raised = TRUE]
    ELSE IF InList(col, metadata["parameters"]) THEN SetParam(acc, col, "ledger", col, PyStr(v))
    ELSE IF "metrics" \notin DOMAIN metadata THEN [acc EXCEPT !.raised = TRUE]
    ELSE IF InList(col, metadata["metrics"]) THEN SetMetric(acc, col, "ledger", col, v)
    ELSE IF "tags" \notin DOMAIN metadata THEN [acc EXCEPT !.raised = TRUE]
    ELSE IF InList(col, metadata["tags"]) THEN SetTag(acc, col, "ledger", col, PyStr(v))
    ELSE InferColumn(acc, col, v)

\* a plausible slip: the ledger consulted before the prefixes
ExtractColumnLedgerFirst(acc, col, v, metadata) ==
    IF IsNa(v) \/ col \in system_columns THEN Routed(acc, col, "skip", "none")
    ELSE IF InList(col, metadata["parameters"]) THEN SetParam(acc, col, "ledger", col, PyStr(v))
    ELSE IF InList(col, metadata["metrics"]) THEN SetMetric(acc, col, "ledger", col, v)
    ELSE IF InList(col, metadata["tags"]) THEN SetTag(acc, col, "ledger", col, PyStr(v))
    ELSE IF StartsWith(col, PrefixParam) THEN SetParam(acc, col, "prefix", SliceFrom(col, 6), PyStr(v))
    ELSE IF StartsWith(col, PrefixMetric) THEN SetMetric(acc, col, "prefix", SliceFrom(col, 7), v)
    ELSE IF StartsWith(col, PrefixTag) THEN SetTag(acc, col, "prefix", SliceFrom(col, 4), PyStr(v))
    ELSE InferColumn(acc, col, v)

\* a plausible slip: only the system columns skipped, a null value handled like any other
ExtractColumnWithoutNullSkip(acc, col, v, metadata) ==
    IF col \in system_columns THEN Routed(acc, col, "skip", "none")
    ELSE IF StartsWith(col, PrefixParam) THEN SetParam(acc, col, "prefix", SliceFrom(col, 6), PyStr(v))
    ELSE IF StartsWith(col, PrefixMetric) THEN SetMetric(acc, col, "prefix", SliceFrom(col, 7), v)
    ELSE IF StartsWith(col, PrefixTag) THEN SetTag(acc, col, "prefix", SliceFrom(col, 4), PyStr(v))
    ELSE LedgerColumn(acc, col, v, metadata)

\* lines 169-183: one iteration of the loop over run_data.index
ExtractColumn(acc, col, v, metadata) ==
    IF IsNa(v) \/ col \in system_columns THEN Routed(acc, col, "skip", "none")
    ELSE IF StartsWith(col, PrefixParam) THEN SetParam(acc, col, "prefix", SliceFrom(col, 6), PyStr(v))
    ELSE IF StartsWith(col, PrefixMetric) THEN SetMetric(acc, col, "prefix", SliceFrom(col, 7), v)
    ELSE IF StartsWith(col, PrefixTag) THEN SetTag(acc, col, "prefix", SliceFrom(col, 4), PyStr(v))
    ELSE LedgerColumn(acc, col, v, metadata)

\* a row is the sequence of its cells [col, val], in the order of run_data.index
RECURSIVE ExtractFrom(_, _, _, _)
ExtractFrom(row, i, acc, metadata) ==
    IF i > Len(row) \/ acc.raised THEN acc
    ELSE ExtractFrom(row, i + 1, ExtractColumn(acc, row[i].col, row[i].val, metadata), metadata)

extract_run_data(row, metadata) == ExtractFrom(row, 1, EmptyOut, metadata)

-----------------------------------------------------------------------------
(* The row and ledger built for one run by export_runs_detailed            *)
(* (src/export_exp.py, lines 71-100).  A run is                            *)
(*   [info, params, metrics, tags, artifacts]                              *)
(* where each of params, metrics, tags is the sequence of the items [k, v] *)
(* of the mapping, in the mapping's iteration order, with distinct keys.   *)

KeyRunId == <<"r", "u", "n", "_", "i", "d">>
KeyExperimentId == <<"e", "x", "p", "e", "r", "i", "m", "e", "n", "t", "_", "i", "d">>
KeyUserId == <<"u", "s", "e", "r", "_", "i", "d">>
KeyStartTime == <<"s", "t", "a", "r", "t", "_", "t", "i", "m", "e">>
KeyEndTime == <<"e", "n", "d", "_", "t", "i", "m", "e">>
KeyStatus == <<"s", "t", "a", "t", "u", "s">>
KeyLifecycleStage == <<"l", "i", "f", "e", "c", "y", "c", "l", "e", "_", "s", "t", "a", "g", "e">>

Cell(c, v) == [col |-> c, val |-> v]

\* lines 72-80: the fixed system columns
SystemCells(run) ==
    << Cell(KeyRunId, run.info.run_id),
       Cell(KeyExperimentId, run.info.experiment_id),
       Cell(KeyUserId, run.info.user_id),
       Cell(KeyStartTime, run.info.start_time),
       Cell(KeyEndTime, run.info.end_time),
       Cell(KeyStatus, run.info.status),
       Cell(KeyLifecycleStage, run.info.lifecycle_stage) >>

\* run_data[column_name] = v on a row: replace the cell of that column or add one
RECURSIVE SetCell(_, _, _)
SetCell(row, c, v) ==
    IF row = <<>> THEN <<Cell(c, v)>>
    ELSE IF row[1].col = c THEN <<Cell(c, v)>> \o Tail(row)
    ELSE <<row[1]>> \o SetCell(Tail(row), c, v)

\* a plausible slip: the name appended to the ledger list without the test for absence
RECURSIVE EncodeItemsAppendAlways(_, _, _, _)
EncodeItemsAppendAlways(prefix, items, row, list) ==
    IF items = <<>> THEN [row |-> row, list |-> list]
    ELSE LET column_name == prefix \o items[1].k
         IN  EncodeItemsAppendAlways(prefix, Tail(items), SetCell(row, column_name, items[1].v),
                                     Append(list, column_name))

\* lines 82-98, one of the three loops: column_name = f"{prefix}{k}";
\* run_data[column_name] = v; the name appended to the ledger list when absent
RECURSIVE EncodeItems(_, _, _, _)
EncodeItems(prefix, items, row, list) ==
    IF items = <<>> THEN [row |-> row, list |-> list]
    ELSE LET column_name == prefix \o items[1].k
         IN  EncodeItems(prefix, Tail(items), SetCell(row, column_name, items[1].v),
                         IF InList(column_name, list) THEN list ELSE Append(list, column_name))

\* lines 72-100: the row of one run and the ledger after it
EncodeRun(run, metadata) ==
    LET m == EncodeItems(PrefixMetric, run.metrics, SystemCells(run), metadata.metrics)
        p == EncodeItems(PrefixParam, run.params, m.row, metadata.parameters)
        t == EncodeItems(PrefixTag, run.tags, p.row, metadata.tags)
    IN  [row |-> t.row,
         metadata |-> [parameters |-> p.list, metrics |-> m.list, tags |-> t.list]]

-----------------------------------------------------------------------------
(* Parts of the state a specification does not use stay as below.          *)

None == <<>>

InitExportIdle ==
    /\ exp_pc = "idle"
    /\ exp_result = "running"
    /\ experiment_runs = <<>>
    /\ page_cap = 1
    /\ include_artifacts = FALSE
    /\ page_token = None
    /\ total_runs = 0
    /\ detailed_runs_data = <<>>
    /\ exp_metadata = EmptyMetadata
    /\ page_requests = 0
    /\ csv_file = <<>>
    /\ metadata_file = <<>>
    /\ summary_file = <<>>
    /\ art_i = 1
    /\ downloaded = {}
    /\ exp_errors = <<>>
    /\ dl_raised = {}

InitImportIdle ==
    /\ imp_pc = "idle"
    /\ csv_text = <<>>
    /\ ledger_file = [state |-> "absent", content |-> EmptyMetadata]
    /\ import_artifacts = FALSE
    /\ artifact_tree = <<>>
    /\ runs_df = <<>>
    /\ imp_metadata = EmptyMetadata
    /\ index = 0
    /\ imported_runs = <<>>
    /\ failed_runs = <<>>
    /\ dest_runs = <<>>
    /\ imp_log = <<>>
    /\ raised_rows = {}
    /\ upload_raised = {}
    /\ summary = <<>>

-----------------------------------------------------------------------------
(* SpecDecode: extract_run_data applied to any row of at most MaxCols      *)
(* cells, with any of the ledgers below.                                   *)

ColRunId == <<"r", "u", "n", "_", "i", "d">>
ColParamA == <<"p", "a", "r", "a", "m", ":", "a">>
ColMetricA == <<"m", "e", "t", "r", "i", "c", ":", "a">>
ColTagA == <<"t", "a", "g", ":", "a">>
ColA == <<"a">>
ColB == <<"b">>

DecCols == {ColRunId, ColParamA, ColMetricA, ColTagA, ColA, ColB}
DecVals ==
    { NaN, IntV(FALSE, 999), IntV(FALSE, 1000), IntV(TRUE, 1000), FloatV(FALSE, 0, 91),
      StrV(<<"a", "b", "c">>), StrV(<<"7">>) }
Cells == [col : DecCols, val : DecVals]
RowsOfLen(n) == {r \in [1..n -> Cells] : \A i, j \in 1..n : r[i].col = r[j].col => i = j}
DecRows == UNION {RowsOfLen(n) : n \in 0..MaxCols}

\* well-formed ledgers: empty, the one export writes, bare names in one or in
\* several groups, and lists naming system or prefixed columns
DecLedgers ==
    { EmptyMetadata,
      [parameters |-> <<ColParamA>>, metrics |-> <<ColMetricA>>, tags |-> <<ColTagA>>],
      [parameters |-> <<ColA>>, metrics |-> <<>>, tags |-> <<>>],
      [parameters |-> <<>>, metrics |-> <<ColA>>, tags |-> <<ColB>>],
      [parameters |-> <<>>, metrics |-> <<>>, tags |-> <<ColA>>],
      [parameters |-> <<ColB, ColA>>, metrics |-> <<ColA>>, tags |-> <<ColA, ColB>>],
      [parameters |-> <<>>, metrics |-> <<ColB, ColA>>, tags |-> <<ColA>>],
      [parameters |-> <<ColMetricA>>, metrics |-> <<ColRunId, ColParamA, ColTagA>>, tags |-> <<>>],
      [parameters |-> <<ColRunId, ColTagA>>, metrics |-> <<>>, tags |-> <<ColRunId, ColParamA, ColMetricA>>] }

InitDecode ==
    /\ dec_pc = "ready"
    /\ run_data \in DecRows
    /\ dec_metadata \in DecLedgers
    /\ dec_out = EmptyOut

InitRoundTripIdle ==
    /\ rt_pc = "idle"
    /\ rt_run = <<>>
    /\ rt_row = <<>>
    /\ rt_metadata = EmptyMetadata
    /\ rt_out = EmptyOut

\* params, metrics, tags = extract_run_data(run_data, metadata)
Decode ==
    /\ dec_pc = "ready"
    /\ dec_out' = extract_run_data(run_data, dec_metadata)
    /\ dec_pc' = "done"
    /\ UNCHANGED <<run_data, dec_metadata, rtVars, expVars, impVars>>

NextDecode == Decode

InitDecodeSpec == InitDecode /\ InitRoundTripIdle /\ InitExportIdle /\ InitImportIdle
SpecDecode == InitDecodeSpec /\ [][NextDecode]_vars

-----------------------------------------------------------------------------
(* Claims about extract_run_data, under SpecDecode.                        *)

\* the resolution chain as the specification words it: the first rule that matches
HasPrefix(col) == \E p \in {PrefixParam, PrefixMetric, PrefixTag} : StartsWith(col, p)
Listed(col, metadata) == \E k \in {"parameters", "metrics", "tags"} : InList(col, metadata[k])
FirstRule(col, metadata) ==
    IF col \in system_columns THEN "skip"
    ELSE IF HasPrefix(col) THEN "prefix"
    ELSE IF Listed(col, metadata) THEN "ledger"
    ELSE "infer"

\* the group the first matching rule names ("any" for the inference rule)
RuleGroup(col, metadata) ==
    CASE FirstRule(col, metadata) = "skip" -> "none"
      [] FirstRule(col, metadata) = "prefix" ->
            IF StartsWith(col, PrefixParam) THEN "params"
            ELSE IF StartsWith(col, PrefixMetric) THEN "metrics" ELSE "tags"
      [] FirstRule(col, metadata) = "ledger" ->
            IF InList(col, metadata["parameters"]) THEN "params"
            ELSE IF InList(col, metadata["metrics"]) THEN "metrics" ELSE "tags"
      [] OTHER -> "any"

\* the name under which the first matching rule files the column
RuleKey(col, metadata) ==
    IF FirstRule(col, metadata) # "prefix" THEN col
    ELSE IF StartsWith(col, PrefixParam) THEN SubSeq(col, Len(PrefixParam) + 1, Len(col))
    ELSE IF StartsWith(col, PrefixMetric) THEN SubSeq(col, Len(PrefixMetric) + 1, Len(col))
    ELSE SubSeq(col, Len(PrefixTag) + 1, Len(col))

GroupOf(out, g) ==
    CASE g = "params" -> out.params [] g = "metrics" -> out.metrics [] OTHER -> out.tags

LiveCells == {i \in 1..Len(run_data) : ~ IsNa(run_data[i].val)}

\* C5: decoder resolution order.  After extract_run_data, every non-null column
\* was handled by the first matching rule of the chain system column / prefix /
\* ledger / inference and by no later one: a system column is in no group even
\* when the ledger lists it, a prefixed column goes to its prefix's group under
\* its stripped name whatever the ledger says, a bare ledger-listed column goes to
\* the ledger's group (a metric whose value does not parse is dropped by that
\* rule, not passed on), and every entry of every group comes from such a column.
C5_ResolutionOrder ==
    dec_pc = "done" =>
        /\ ~ dec_out.raised
        /\ \A i \in LiveCells :
            LET col == run_data[i].col
                val == run_data[i].val
                rule == FirstRule(col, dec_metadata)
                grp == RuleGroup(col, dec_metadata)
                key == RuleKey(col, dec_metadata)
                r == dec_out.route[col]
            IN  /\ r.rule = rule
                /\ rule = "skip" => r.group = "none"
                /\ rule \in {"prefix", "ledger"} =>
                      IF grp = "metrics" /\ ~ PyFloat(val).ok
                      THEN r.group = "none"
                      ELSE r.group = grp /\ key \in DOMAIN GroupOf(dec_out, grp)
                /\ rule = "infer" => r.group \in {"params", "metrics"}
        /\ \A g \in {"params", "metrics", "tags"} : \A k \in DOMAIN GroupOf(dec_out, g) :
              \E i \in LiveCells :
                  /\ RuleKey(run_data[i].col, dec_metadata) = k
                  /\ RuleGroup(run_data[i].col, dec_metadata) \in
                        (IF g = "tags" THEN {g} ELSE {g, "any"})

\* C5 witness: a decoded row holding a prefixed column that the ledger lists under
\* another group and a non-null system column that the ledger lists too
C5_Witness ==
    /\ dec_pc = "done"
    /\ \E i, j \in LiveCells :
          /\ run_data[i].col = ColParamA /\ InList(ColParamA, dec_metadata["metrics"])
          /\ run_data[j].col = ColRunId /\ InList(ColRunId, dec_metadata["metrics"])
    /\ DOMAIN dec_out.params = {ColA}
    /\ DOMAIN dec_out.metrics = {}

\* the columns that reach the value-shape fallback
InferredCells ==
    {i \in LiveCells : FirstRule(run_data[i].col, dec_metadata) = "infer"}

\* what the value alone decides: a number with no fractional part and magnitude
\* below the threshold, or a text that is no number, is a parameter; any other
\* number is a metric
ShapeGroup(v) ==
    LET f == PyFloat(v)
    IN  IF ~ f.ok THEN "params"
        ELSE IF f.val.kind = "float" /\ f.val.frac = 0 /\ f.val.whole < InferThreshold
             THEN "params" ELSE "metrics"

\* C6: inference fallback.  A column with no recognized prefix and no ledger entry
\* is filed in the group its value alone decides: integer-like numbers of magnitude
\* below 1000 and non-numeric values as parameters (kept as text, unless another
\* column of the row is filed under the same name), every other
\* number as a metric; 999 and "7" are parameters, 1000, -1000 and 0.91 metrics.
C6_InferenceFallback ==
    dec_pc = "done" =>
        \A i \in InferredCells :
            LET col == run_data[i].col
                val == run_data[i].val
            IN  /\ dec_out.route[col].group = ShapeGroup(val)
                /\ col \in DOMAIN GroupOf(dec_out, ShapeGroup(val))
                /\ (ShapeGroup(val) = "params"
                    /\ \A j \in LiveCells : RuleKey(run_data[j].col, dec_metadata) = col => j = i)
                      => dec_out.params[col] = PyStr(val)
                /\ val \in {IntV(FALSE, 999), StrV(<<"7">>), StrV(<<"a", "b", "c">>)}
                      => ShapeGroup(val) = "params"
                /\ val \in {IntV(FALSE, 1000), IntV(TRUE, 1000), FloatV(FALSE, 0, 91)}
                      => ShapeGroup(val) = "metrics"

\* C6 witness: one row inferred a small integer as a parameter and a fraction as a
\* metric
C6_Witness ==
    /\ dec_pc = "done"
    /\ \E i, j \in InferredCells :
          /\ run_data[i].val = IntV(FALSE, 999) /\ run_data[i].col \in DOMAIN dec_out.params
          /\ run_data[j].val = FloatV(FALSE, 0, 91) /\ run_data[j].col \in DOMAIN dec_out.metrics

\* C7: every inference emits a warning.  Each column classified by the value-shape
\* fallback, whatever the outcome, has a warning naming it.
C7_EveryInferenceWarns ==
    dec_pc = "done" =>
        \A i \in InferredCells :
            \E w \in 1..Len(dec_out.warnings) :
                /\ dec_out.warnings[w].name = run_data[i].col
                /\ dec_out.warnings[w].msg \in {"inferring_metric", "inferring_parameter"}

-----------------------------------------------------------------------------
(* SpecRoundTrip: one run encoded by export, its row decoded by import.    *)

NameA == <<"a">>
NameTagA == <<"t", "a", "g", ":", "a">>
RtNames == {NameA, NameTagA}
TextAbc == StrV(<<"a", "b", "c">>)
Text7 == StrV(<<"7">>)
\* parameter and tag values are texts, metric values are floats (NaN included)
RtTexts == {TextAbc, Text7}
RtFloats == {FloatV(FALSE, 0, 91), FloatV(TRUE, 1000, 0), NaN}

Items(names, values) ==
    UNION { {it \in [1..n -> [k : names, v : values]] : \A i, j \in 1..n : it[i].k = it[j].k => i = j}
            : n \in 0..Cardinality(names) }

StatusFinished == StrV(<<"F", "I", "N", "I", "S", "H", "E", "D">>)
StatusFailed == StrV(<<"F", "A", "I", "L", "E", "D">>)
StatusRunning == StrV(<<"R", "U", "N", "N", "I", "N", "G">>)
RunId(id) == StrV(<<"r", Digits[id + 1]>>)
Info(id, status) ==
    [run_id |-> RunId(id), experiment_id |-> IntV(FALSE, 0),
     user_id |-> StrV(<<"u">>), start_time |-> IntV(FALSE, 1700), end_time |-> NaN,
     status |-> status, lifecycle_stage |-> StrV(<<"a", "c", "t", "i", "v", "e">>)]

RtRuns ==
    [info : {Info(1, StatusFinished)}, params : Items(RtNames, RtTexts), metrics : Items(RtNames, RtFloats),
     tags : Items(RtNames, RtTexts), artifacts : {0}]

\* the mapping a sequence of items stands for
ToDict(items) ==
    [k \in {items[i].k : i \in 1..Len(items)} |->
        (CHOOSE it \in {items[i] : i \in 1..Len(items)} : it.k = k).v]

InitDecodeIdle ==
    /\ dec_pc = "idle"
    /\ run_data = <<>>
    /\ dec_metadata = EmptyMetadata
    /\ dec_out = EmptyOut

InitRoundTrip ==
    /\ rt_pc = "run"
    /\ rt_run \in RtRuns
    /\ rt_row = <<>>
    /\ rt_metadata = EmptyMetadata
    /\ rt_out = EmptyOut

\* export: the run's row and the ledger of an export holding this run
RtEncode ==
    /\ rt_pc = "run"
    /\ LET e == EncodeRun(rt_run, EmptyMetadata)
       IN  rt_row' = e.row /\ rt_metadata' = e.metadata
    /\ rt_pc' = "row"
    /\ UNCHANGED <<rt_run, rt_out, decVars, expVars, impVars>>

\* import with the ledger the export wrote
RtDecodeWithLedger ==
    /\ rt_pc = "row"
    /\ rt_out' = extract_run_data(rt_row, rt_metadata)
    /\ rt_pc' = "with_ledger"
    /\ UNCHANGED <<rt_run, rt_row, rt_metadata, decVars, expVars, impVars>>

\* import without a ledger: the three lists stay empty
RtDecodeWithoutLedger ==
    /\ rt_pc = "row"
    /\ rt_out' = extract_run_data(rt_row, EmptyMetadata)
    /\ rt_pc' = "without_ledger"
    /\ UNCHANGED <<rt_run, rt_row, rt_metadata, decVars, expVars, impVars>>

NextRoundTrip == RtEncode \/ RtDecodeWithLedger \/ RtDecodeWithoutLedger

InitRoundTripSpec == InitRoundTrip /\ InitDecodeIdle /\ InitExportIdle /\ InitImportIdle
SpecRoundTrip == InitRoundTripSpec /\ [][NextRoundTrip]_vars

\* C1: round trip.  Once a run's row has been decoded, with the export's ledger or
\* with none, the decoded parameters, metrics and tags are exactly the run's.
C1_RoundTrip ==
    rt_pc \in {"with_ledger", "without_ledger"} =>
        /\ ~ rt_out.raised
        /\ rt_out.params = ToDict(rt_run.params)
        /\ rt_out.metrics = ToDict(rt_run.metrics)
        /\ rt_out.tags = ToDict(rt_run.tags)

\* what does hold: the round trip restricted to the runs none of whose metrics is NaN
RoundTripWithoutNaN ==
    (rt_pc \in {"with_ledger", "without_ledger"}
        /\ \A i \in 1..Len(rt_run.metrics) : ~ IsNa(rt_run.metrics[i].v)) =>
        /\ rt_out.params = ToDict(rt_run.params)
        /\ rt_out.metrics = ToDict(rt_run.metrics)
        /\ rt_out.tags = ToDict(rt_run.tags)

-----------------------------------------------------------------------------
(* SpecExport: export_runs_detailed (src/export_exp.py).                   *)
(* Only calls to the tracking server raise; the local file system works.   *)

Min(a, b) == IF a < b THEN a ELSE b

\* line 58
max_results_per_page == 5000

Item(k, v) == [k |-> k, v |-> v]
\* the data of the runs an experiment may hold: differing key sets, a name used in
\* several groups, a name that itself looks prefixed, 2, 0 and 1 artifacts
RunKinds ==
    { [status |-> StatusFinished, params |-> <<Item(NameA, TextAbc)>>,
       metrics |-> <<Item(NameA, FloatV(FALSE, 0, 91))>>, tags |-> <<>>, artifacts |-> 2],
      [status |-> StatusFailed, params |-> <<>>,
       metrics |-> <<Item(NameTagA, FloatV(TRUE, 1000, 0))>>, tags |-> <<Item(NameA, Text7)>>,
       artifacts |-> 0],
      [status |-> StatusRunning, params |-> <<Item(NameTagA, Text7), Item(NameA, TextAbc)>>,
       metrics |-> <<>>, tags |-> <<Item(NameA, TextAbc)>>, artifacts |-> 1] }

RunOf(id, kind) ==
    [info |-> Info(id, kind.status), params |-> kind.params, metrics |-> kind.metrics,
     tags |-> kind.tags, artifacts |-> kind.artifacts]

Experiments ==
    UNION { {[i \in 1..n |-> RunOf(i, f[i])] : f \in [1..n -> RunKinds]} : n \in 0..MaxRuns }

\* the tracking server's search_runs: the page that starts where the token says, of
\* at most min(max_results, page_cap) runs, with the token of the next page, or None
\* when the runs are exhausted.  When a full page ends exactly at the last run the
\* server may (eager) still hand out a token, and then serves an empty final page.
\* the empty token: the server reads it, like None, as the start of the runs
EmptyToken == <<0>>

SearchRunsSignalling(all, max_results, token, eager, end) ==
    LET offset == IF token = None THEN 0 ELSE token[1]
        size == Min(max_results, page_cap)
        last == Min(offset + size, Len(all))
    IN  [runs |-> SubSeq(all, offset + 1, last),
         token |-> IF last < Len(all) \/ (eager /\ last > offset) THEN <<last>> ELSE end]

\* search_runs of the MLflow client, whose final page carries the token None
SearchRuns(all, max_results, token, eager) ==
    SearchRunsSignalling(all, max_results, token, eager, None)

\* lines 71-100 for the runs of one page: rows appended, ledger extended
RECURSIVE EncodePage(_, _, _)
EncodePage(runs, rows, md) ==
    IF runs = <<>> THEN [rows |-> rows, metadata |-> md]
    ELSE LET e == EncodeRun(runs[1], md)
         IN  EncodePage(Tail(runs), Append(rows, e.row), e.metadata)

\* a plausible slip: the loop left after the first page
AfterPageBreakAlways(token) == "write"

\* lines 102-105: leave the loop when the token is None
AfterPage(token) == IF token = None THEN "write" ELSE "fetch"

\* value of a column in a row, NaN when the row has no such column
RowGet(row, c) ==
    IF \E i \in 1..Len(row) : row[i].col = c
    THEN row[CHOOSE i \in 1..Len(row) : row[i].col = c].val
    ELSE NaN

\* columns of the rows in order of first appearance
RECURSIVE AddCols(_, _)
AddCols(cols, row) ==
    IF row = <<>> THEN cols
    ELSE AddCols(IF InList(row[1].col, cols) THEN cols ELSE Append(cols, row[1].col), Tail(row))
RECURSIVE AllCols(_, _)
AllCols(cols, rows) == IF rows = <<>> THEN cols ELSE AllCols(AddCols(cols, rows[1]), Tail(rows))

\* line 109: pd.DataFrame(detailed_runs_data): every row over all the columns, NaN
\* where the run has no such column
DataFrame(rows) ==
    LET cols == AllCols(<<>>, rows)
    IN  [i \in 1..Len(rows) |-> [j \in 1..Len(cols) |-> Cell(cols[j], RowGet(rows[i], cols[j]))]]

CountStatus(rows, status) == Cardinality({i \in 1..Len(rows) : RowGet(rows[i], KeyStatus) = status})

\* index, in the experiment, of the run a row was made from
RunIndexOf(row) == CHOOSE j \in 1..Len(experiment_runs) : experiment_runs[j].info.run_id = RowGet(row, KeyRunId)

InitExport ==
    /\ exp_pc = "lookup"
    /\ exp_result = "running"
    /\ experiment_runs \in Experiments
    /\ page_cap \in 1..MaxPageCap
    /\ include_artifacts \in BOOLEAN
    /\ page_token = None
    /\ total_runs = 0
    /\ detailed_runs_data = <<>>
    /\ exp_metadata = EmptyMetadata
    /\ page_requests = 0
    /\ csv_file = <<>>
    /\ metadata_file = <<>>
    /\ summary_file = <<>>
    /\ art_i = 1
    /\ downloaded = {}
    /\ exp_errors = <<>>
    /\ dl_raised = {}

\* a plausible slip: the exception swallowed inside the loop, which goes on
ExceptionHandlerContinue ==
    /\ exp_errors' = Append(exp_errors, "Error exporting runs")
    /\ exp_pc' = IF exp_pc = "lookup" THEN "error" ELSE "write"
    /\ exp_result' = IF exp_pc = "lookup" THEN "returned" ELSE exp_result

\* lines 165-168: the outer except prints the error and the traceback, and the
\* function returns
ExceptionHandler ==
    /\ exp_errors' = Append(exp_errors, "Error exporting runs")
    /\ exp_pc' = "error"
    /\ exp_result' = "returned"

\* lines 35-51: the experiment is found by name or by id; or it is not and the
\* function returns; or the server raises
LookupExperiment ==
    /\ exp_pc = "lookup"
    /\ \/ /\ exp_pc' = "fetch"
          /\ UNCHANGED <<exp_result, exp_errors>>
       \/ /\ exp_pc' = "not_found"
          /\ exp_result' = "returned"
          /\ UNCHANGED exp_errors
       \/ ExceptionHandler
    /\ UNCHANGED <<experiment_runs, page_cap, include_artifacts, page_token, total_runs,
                   detailed_runs_data, exp_metadata, page_requests, csv_file, metadata_file,
                   summary_file, art_i, downloaded, dl_raised>>
    /\ UNCHANGED <<decVars, rtVars, impVars>>

\* lines 60-105: one iteration of the page loop, with a server that signals the
\* final page by one of the tokens in `ends`
FetchPageFrom(ends) ==
    /\ exp_pc = "fetch"
    /\ page_requests' = page_requests + 1
    /\ \/ \E eager \in BOOLEAN : \E end \in ends :
            LET runs_page == SearchRunsSignalling(experiment_runs, max_results_per_page,
                                                  page_token, eager, end)
                e == EncodePage(runs_page.runs, detailed_runs_data, exp_metadata)
            IN  /\ total_runs' = total_runs + Len(runs_page.runs)
                /\ detailed_runs_data' = e.rows
                /\ exp_metadata' = e.metadata
                /\ page_token' = runs_page.token
                /\ exp_pc' = AfterPage(runs_page.token)
                /\ UNCHANGED <<exp_result, exp_errors>>
       \/ /\ ExceptionHandler
          /\ UNCHANGED <<total_runs, detailed_runs_data, exp_metadata, page_token>>
    /\ UNCHANGED <<experiment_runs, page_cap, include_artifacts, csv_file, metadata_file,
                   summary_file, art_i, downloaded, dl_raised>>
    /\ UNCHANGED <<decVars, rtVars, impVars>>

\* the page loop against the MLflow client
FetchPage == FetchPageFrom({None})

\* lines 107-122: the table and the ledger are written
WriteFiles ==
    /\ exp_pc = "write"
    /\ csv_file' = <<DataFrame(detailed_runs_data)>>
    /\ metadata_file' = <<exp_metadata>>
    /\ art_i' = 1
    /\ exp_pc' = IF include_artifacts /\ detailed_runs_data # <<>> THEN "artifacts" ELSE "summary"
    /\ UNCHANGED <<exp_result, experiment_runs, page_cap, include_artifacts, page_token,
                   total_runs, detailed_runs_data, exp_metadata, page_requests, summary_file,
                   downloaded, exp_errors, dl_raised>>
    /\ UNCHANGED <<decVars, rtVars, impVars>>

\* lines 124-141: one iteration of the loop over the exported runs.  The try encloses
\* list_artifacts and the whole loop over the run's artifacts: the first call that
\* raises (fail_at = 0: list_artifacts; fail_at = j: the download of artifact j) ends
\* the run's downloads, the error is printed and the next run is taken
DownloadRunArtifacts ==
    /\ exp_pc = "artifacts"
    /\ LET r == RunIndexOf(detailed_runs_data[art_i])
           n == experiment_runs[r].artifacts
       IN  \E fail_at \in 0..(n + 1) :
              /\ downloaded' = downloaded \cup {<<r, a>> : a \in 1..(Min(fail_at, n + 1) - 1)}
              /\ IF fail_at <= n
                 THEN /\ exp_errors' = Append(exp_errors, "Error downloading artifacts")
                      /\ dl_raised' = dl_raised \cup {<<r, fail_at>>}
                 ELSE UNCHANGED <<exp_errors, dl_raised>>
    /\ art_i' = art_i + 1
    /\ exp_pc' = IF art_i = Len(detailed_runs_data) THEN "summary" ELSE "artifacts"
    /\ UNCHANGED <<exp_result, experiment_runs, page_cap, include_artifacts, page_token,
                   total_runs, detailed_runs_data, exp_metadata, page_requests, csv_file,
                   metadata_file, summary_file>>
    /\ UNCHANGED <<decVars, rtVars, impVars>>

\* lines 143-163: the summary is written and the function returns
WriteSummary ==
    /\ exp_pc = "summary"
    /\ summary_file' =
          << [total_runs |-> total_runs,
              successful_runs |-> CountStatus(detailed_runs_data, StatusFinished),
              failed_runs |-> CountStatus(detailed_runs_data, StatusFailed),
              parameters_count |-> Len(exp_metadata.parameters),
              metrics_count |-> Len(exp_metadata.metrics),
              tags_count |-> Len(exp_metadata.tags)] >>
    /\ exp_pc' = "done"
    /\ exp_result' = "returned"
    /\ UNCHANGED <<experiment_runs, page_cap, include_artifacts, page_token, total_runs,
                   detailed_runs_data, exp_metadata, page_requests, csv_file, metadata_file,
                   art_i, downloaded, exp_errors, dl_raised>>
    /\ UNCHANGED <<decVars, rtVars, impVars>>

NextExport == LookupExperiment \/ FetchPage \/ WriteFiles \/ DownloadRunArtifacts \/ WriteSummary

InitExportSpec == InitExport /\ InitDecodeIdle /\ InitRoundTripIdle /\ InitImportIdle
SpecExport == InitExportSpec /\ [][NextExport]_vars

-----------------------------------------------------------------------------
(* Claims about export_runs_detailed, under SpecExport.                    *)

RowsOfRun(j) ==
    {i \in 1..Len(detailed_runs_data) :
        RowGet(detailed_runs_data[i], KeyRunId) = experiment_runs[j].info.run_id}

\* C2: pagination completeness.  Once the page loop has ended without an error, the
\* rows collected are exactly the runs of the experiment, each run once, whatever the
\* number of runs N (0 included) and the page size P (dividing N or not).
C2_PaginationComplete ==
    exp_pc \in {"write", "artifacts", "summary", "done"} =>
        /\ Len(detailed_runs_data) = Len(experiment_runs)
        /\ total_runs = Len(experiment_runs)
        /\ \A j \in 1..Len(experiment_runs) : Cardinality(RowsOfRun(j)) = 1

\* C2 witness: three runs served in pages of two (2 then 1) and all three exported
C2_Witness ==
    /\ exp_pc = "done"
    /\ Len(experiment_runs) = 3
    /\ page_cap = 2
    /\ page_requests = 2
    /\ Len(detailed_runs_data) = 3

\* C9: per-artifact failure isolation, export direction.  When the export is over,
\* every artifact of every exported run has been copied, except the artifacts whose
\* own download raised and those of a run whose listing raised.
C9_ArtifactIsolationExport ==
    (exp_pc = "done" /\ include_artifacts) =>
        \A r \in 1..Len(experiment_runs) :
            <<r, 0>> \notin dl_raised =>
                \A a \in 1..experiment_runs[r].artifacts :
                    <<r, a>> \notin dl_raised => <<r, a>> \in downloaded

\* a page request raised: search_runs was called and the export error was printed
RetrievalFailed == page_requests > 0 /\ InList("Error exporting runs", exp_errors)

\* C10 as amended: after a page request raises, nothing more happens (no further
\* page request), no table, ledger or summary file exists, no artifact was
\* downloaded, the error was printed and the function has returned normally.
C10_RetrievalErrorAborts ==
    RetrievalFailed =>
        /\ exp_pc = "error"
        /\ ~ ENABLED NextExport
        /\ csv_file = <<>> /\ metadata_file = <<>> /\ summary_file = <<>>
        /\ downloaded = {}
        /\ exp_result = "returned"

\* C10 witness: the second page request raised after a first page of rows
C10_Witness ==
    /\ RetrievalFailed
    /\ page_requests = 2
    /\ Len(detailed_runs_data) = 2
    /\ csv_file = <<>>

\* C10 as claimed: after a page request raises nothing is written or downloaded and
\* the failure reaches the caller of export_runs_detailed as an exception.
C10_SurfacedToCaller ==
    RetrievalFailed =>
        /\ csv_file = <<>> /\ metadata_file = <<>> /\ summary_file = <<>>
        /\ downloaded = {}
        /\ exp_result = "raised"

\* the ledger's groups: the key of the list in the ledger, of the items in a run,
\* and the prefix of the columns
LedgerGroups ==
    { [list |-> "parameters", items |-> "params", prefix |-> PrefixParam],
      [list |-> "metrics", items |-> "metrics", prefix |-> PrefixMetric],
      [list |-> "tags", items |-> "tags", prefix |-> PrefixTag] }

NoDuplicates(l) == \A a, b \in 1..Len(l) : l[a] = l[b] => a = b
IsPrefixOf(l, m) == Len(l) <= Len(m) /\ SubSeq(m, 1, Len(l)) = l

\* the names of l in order of first appearance
RECURSIVE FirstSeen(_, _)
FirstSeen(seen, l) ==
    IF l = <<>> THEN seen
    ELSE FirstSeen(IF InList(l[1], seen) THEN seen ELSE Append(seen, l[1]), Tail(l))

\* the columns of group g that the runs of the rows collected so far introduce, run
\* after run, each run's items in the order of its mapping
RECURSIVE GroupColumns(_, _)
GroupColumns(g, rows) ==
    IF rows = <<>> THEN <<>>
    ELSE LET items == experiment_runs[RunIndexOf(rows[Len(rows)])][g.items]
         IN  GroupColumns(g, SubSeq(rows, 1, Len(rows) - 1))
                \o [j \in 1..Len(items) |-> g.prefix \o items[j].k]

\* the ledger as it must be after the rows collected so far
LedgerAsObserved(md, rows) ==
    \A g \in LedgerGroups :
        /\ NoDuplicates(md[g.list])
        /\ \A j \in 1..Len(md[g.list]) : StartsWith(md[g.list][j], g.prefix)
        /\ md[g.list] = FirstSeen(<<>>, GroupColumns(g, rows))

\* the rows added by a step bring no column that the ledger does not hold already
NothingNew(md, rows, rows2) ==
    \A g \in LedgerGroups :
        \A c \in {GroupColumns(g, rows2)[j] : j \in 1..Len(GroupColumns(g, rows2))} :
            InList(c, md[g.list])

\* C12: ledger invariant.  After every step of the export each ledger list has no
\* duplicate, holds only names with its group's prefix and is the list of the
\* group's columns produced by the runs processed so far, in order of first
\* observation; a step only appends to the lists (the old list is a prefix of the
\* new one), and leaves the ledger unchanged when the runs it processed bring no
\* column that was not recorded.
C12_LedgerInvariant ==
    [][ /\ LedgerAsObserved(exp_metadata', detailed_runs_data')
        /\ \A g \in LedgerGroups : IsPrefixOf(exp_metadata[g.list], exp_metadata'[g.list])
        /\ NothingNew(exp_metadata, detailed_runs_data, detailed_runs_data')
              => exp_metadata' = exp_metadata ]_vars

\* C12 witness: three runs exported one per page, the third of the kind of the
\* first, and the ledger holds each of its columns once
C12_Witness ==
    /\ exp_pc = "done"
    /\ page_cap = 1
    /\ Len(detailed_runs_data) = 3
    /\ experiment_runs[3].params = experiment_runs[1].params
    /\ experiment_runs[3].metrics = experiment_runs[1].metrics
    /\ experiment_runs[2].tags # <<>>
    /\ Len(exp_metadata.parameters) = 1
    /\ Len(exp_metadata.metrics) = 2
    /\ Len(exp_metadata.tags) = 1

-----------------------------------------------------------------------------
(* SpecPager: the page loop of export_runs_detailed against a server that  *)
(* signals the final page with None or with the empty token.               *)

PagerFetchPage == page_requests < MaxRequests /\ FetchPageFrom({None, EmptyToken})

NextPager == LookupExperiment \/ PagerFetchPage

SpecPager == InitExportSpec /\ [][NextPager]_vars

\* the last page request returned, and its page carried the exhaustion signal
ExhaustionSignalled ==
    page_requests > 0 /\ exp_pc # "error" /\ page_token \in {None, EmptyToken}

\* C11: pager termination.  Once the server has signalled exhaustion, with None or
\* with the empty token, the page loop has stopped: it is not about to issue a
\* further page request.
C11_PagerTermination == ExhaustionSignalled => exp_pc # "fetch"

\* what does hold: the loop stops on the exhaustion signal None
PagerStopsOnNone == (page_requests > 0 /\ exp_pc # "error" /\ page_token = None) => exp_pc = "write"

-----------------------------------------------------------------------------
(* Spec: import_runs (src/import_exp.py).                                  *)
(* Calls to the tracking server may raise, and so may reading the files.   *)

\* pd.read_csv's reading of a column: integers when every field is an integer,
\* floats when every non-empty field is a number, texts otherwise; an empty field is
\* NaN in every case
IsIntText(t) == AllDigits(t) \/ (Len(t) > 1 /\ t[1] = "-" /\ AllDigits(Tail(t)))
IsNumText(t) == PyFloat(StrV(t)).ok
ColumnType(table, j) ==
    LET fields == {table[i][j].val : i \in 1..Len(table)}
        filled == fields \ {<<>>}
    IN  IF \A t \in filled : IsIntText(t)
        THEN IF filled = fields THEN "int" ELSE "float"
        ELSE IF \A t \in filled : IsNumText(t) THEN "float" ELSE "object"
ReadField(t, type) ==
    IF t = <<>> THEN NaN
    ELSE CASE type = "int" -> IntV(t[1] = "-", DigitsToNat(IF t[1] = "-" THEN Tail(t) ELSE t))
           [] type = "float" -> PyFloat(StrV(t)).val
           [] OTHER -> StrV(t)

\* line 53: runs_df = pd.read_csv(csv_path)
ReadCsv(table) ==
    [i \in 1..Len(table) |->
        [j \in 1..Len(table[i]) |-> Cell(table[i][j].col, ReadField(table[i][j].val, ColumnType(table, j)))]]

\* the fields of a row of the table file, besides its run_id: a row as export writes
\* it, a row whose metric field is no number, a row with a bare column
RowTexts ==
    { [param |-> <<"a", "b", "c">>, metric |-> <<"0", ".", "9", "1">>, bare |-> <<>>],
      [param |-> <<>>, metric |-> <<"a", "b", "c">>, bare |-> <<>>],
      [param |-> <<"7">>, metric |-> <<>>, bare |-> <<"9", "9", "9">>] }

CsvRow(i, t) ==
    << Cell(KeyRunId, <<"r", Digits[i + 1]>>), Cell(ColParamA, t.param),
       Cell(ColMetricA, t.metric), Cell(ColB, t.bare) >>

CsvTables ==
    UNION { {[i \in 1..n |-> CsvRow(i, f[i])] : f \in [1..n -> RowTexts]} : n \in 0..MaxRows }

\* the ledger file: absent (no path given, or no such file), not JSON, or a JSON
\* object: a ledger listing a prefixed and a bare column, one lacking "tags"
LedgerFiles ==
    { [state |-> "absent", content |-> EmptyMetadata],
      [state |-> "invalid", content |-> EmptyMetadata],
      [state |-> "json",
       content |-> [parameters |-> <<ColParamA>>, metrics |-> <<ColB>>, tags |-> <<>>]],
      [state |-> "json", content |-> [parameters |-> <<>>, metrics |-> <<>>]] }

InitImport ==
    /\ imp_pc = "setup"
    /\ csv_text \in CsvTables
    /\ ledger_file \in LedgerFiles
    /\ import_artifacts \in BOOLEAN
    /\ \E k \in 0..Len(csv_text) :
          artifact_tree = [i \in 1..Len(csv_text) |-> IF i = k THEN MaxFiles ELSE 0]
    /\ (~ import_artifacts) => \A i \in 1..Len(csv_text) : artifact_tree[i] = 0
    /\ runs_df = <<>>
    /\ imp_metadata = EmptyMetadata
    /\ index = 0
    /\ imported_runs = <<>>
    /\ failed_runs = <<>>
    /\ dest_runs = <<>>
    /\ imp_log = <<>>
    /\ raised_rows = {}
    /\ upload_raised = {}
    /\ summary = <<>>

\* lines 38-50: the destination experiment is found or created; on any exception
\* the error is printed and the function returns
SetupExperiment ==
    /\ imp_pc = "setup"
    /\ \/ imp_pc' = "read_csv" /\ UNCHANGED imp_log
       \/ imp_pc' = "aborted" /\ imp_log' = Append(imp_log, [msg |-> "Error setting up experiment", name |-> <<>>])
    /\ UNCHANGED <<csv_text, ledger_file, import_artifacts, artifact_tree, runs_df, imp_metadata,
                   index, imported_runs, failed_runs, dest_runs, raised_rows, upload_raised, summary>>
    /\ UNCHANGED <<decVars, rtVars, expVars>>

\* lines 52-57: the table is read; on any exception the function returns
ReadTable ==
    /\ imp_pc = "read_csv"
    /\ \/ /\ runs_df' = ReadCsv(csv_text)
          /\ imp_pc' = "load_ledger"
          /\ UNCHANGED imp_log
       \/ /\ imp_pc' = "aborted"
          /\ imp_log' = Append(imp_log, [msg |-> "Error reading CSV file", name |-> <<>>])
          /\ UNCHANGED runs_df
    /\ UNCHANGED <<csv_text, ledger_file, import_artifacts, artifact_tree, imp_metadata,
                   index, imported_runs, failed_runs, dest_runs, raised_rows, upload_raised, summary>>
    /\ UNCHANGED <<decVars, rtVars, expVars>>

\* lines 62-65 on a file that json.load accepts: metadata is assigned first, and the
\* print that follows raises KeyError when one of the three lists is missing
LoadedMetadata(file) ==
    [metadata |-> file.content,
     raised |-> ~ ({"parameters", "metrics", "tags"} \subseteq DOMAIN file.content)]

\* lines 59-67: the ledger is loaded; any exception is printed and the import goes on
LoadLedger ==
    /\ imp_pc = "load_ledger"
    /\ IF ledger_file.state = "absent"
       THEN UNCHANGED <<imp_metadata, imp_log>>
       ELSE IF ledger_file.state = "invalid"
       THEN /\ UNCHANGED imp_metadata
            /\ imp_log' = Append(imp_log, [msg |-> "Error loading metadata", name |-> <<>>])
       ELSE /\ imp_metadata' = LoadedMetadata(ledger_file).metadata
            /\ imp_log' = IF LoadedMetadata(ledger_file).raised
                          THEN Append(imp_log, [msg |-> "Error loading metadata", name |-> <<>>])
                          ELSE imp_log
    /\ imp_pc' = IF runs_df = <<>> THEN "summary" ELSE "rows"
    /\ UNCHANGED <<csv_text, ledger_file, import_artifacts, artifact_tree, runs_df,
                   index, imported_runs, failed_runs, dest_runs, raised_rows, upload_raised, summary>>
    /\ UNCHANGED <<decVars, rtVars, expVars>>

\* the calls of one row that reach the tracking server, in order; "none": none raises
CallsOf(out) ==
    {"none", "start_run", "end_run"}
        \cup (IF out.params # EmptyDict THEN {"log_params"} ELSE {})
        \cup (IF out.metrics # EmptyDict THEN {"log_metrics"} ELSE {})
        \cup (IF out.tags # EmptyDict THEN {"set_tags"} ELSE {})

\* lines 78-89 and the exit of the with block: the run created for a row when the
\* call `at` raises ("none": no call raises), with what was logged before
DestRun(i, out, at, uploaded) ==
    [source |-> i,
     params |-> IF at = "log_params" THEN EmptyDict ELSE out.params,
     metrics |-> IF at \in {"log_params", "log_metrics"} THEN EmptyDict ELSE out.metrics,
     tags |-> IF at \in {"log_params", "log_metrics", "set_tags"} THEN EmptyDict ELSE out.tags,
     artifacts |-> uploaded,
     status |-> IF at = "none" THEN "FINISHED" ELSE IF at = "end_run" THEN "RUNNING" ELSE "FAILED"]

\* a plausible slip: the failed row recorded by its printed number, index + 1
OnRowExceptionOneBased(failed, i) == Append(failed, i + 1)

\* lines 118-122: the except of the row loop
OnRowException(failed, i) == Append(failed, i)

\* lines 72-122: one iteration of the row loop.  extract_run_data may raise; then
\* start_run, log_params, log_metrics, set_tags may raise; each file upload may
\* raise, which is caught per file (lines 104-109); imported_runs.append is the last
\* statement inside the with block, whose exit ends the run, a server call that may
\* raise as well
ImportRow ==
    /\ imp_pc = "rows"
    /\ LET row == runs_df[index + 1]
           out == extract_run_data(row, imp_metadata)
           files == IF import_artifacts THEN 1..artifact_tree[index + 1] ELSE {}
           new_id == Len(dest_runs) + 1
       IN  IF out.raised
           THEN /\ failed_runs' = OnRowException(failed_runs, index)
                /\ raised_rows' = raised_rows \cup {[index |-> index, at |-> "extract_run_data"]}
                /\ imp_log' = imp_log \o out.warnings
                /\ UNCHANGED <<imported_runs, dest_runs, upload_raised>>
           ELSE \E at \in CallsOf(out) : \E bad \in SUBSET files :
                /\ (at \notin {"none", "end_run"}) => bad = {}
                /\ imp_log' = imp_log \o out.warnings
                /\ dest_runs' = IF at = "start_run" THEN dest_runs
                                ELSE Append(dest_runs,
                                            DestRun(index, out, at,
                                                    IF at \in {"none", "end_run"} THEN files \ bad ELSE {}))
                /\ upload_raised' = upload_raised \cup {<<index, f>> : f \in bad}
                /\ imported_runs' = IF at \in {"none", "end_run"}
                                    THEN Append(imported_runs, new_id) ELSE imported_runs
                /\ failed_runs' = IF at = "none" THEN failed_runs
                                  ELSE OnRowException(failed_runs, index)
                /\ raised_rows' = IF at = "none" THEN raised_rows
                                  ELSE raised_rows \cup {[index |-> index, at |-> at]}
    /\ index' = index + 1
    /\ imp_pc' = IF index + 1 = Len(runs_df) THEN "summary" ELSE "rows"
    /\ UNCHANGED <<csv_text, ledger_file, import_artifacts, artifact_tree, runs_df, imp_metadata,
                   summary>>
    /\ UNCHANGED <<decVars, rtVars, expVars>>

\* lines 124-146: the summary is written and returned
WriteImportSummary ==
    /\ imp_pc = "summary"
    /\ summary' = << [total_runs_attempted |-> Len(runs_df),
                      successful_imports |-> Len(imported_runs),
                      failed_imports |-> Len(failed_runs),
                      failed_run_indices |-> failed_runs] >>
    /\ imp_pc' = "done"
    /\ UNCHANGED <<csv_text, ledger_file, import_artifacts, artifact_tree, runs_df, imp_metadata,
                   index, imported_runs, failed_runs, dest_runs, imp_log, raised_rows,
                   upload_raised>>
    /\ UNCHANGED <<decVars, rtVars, expVars>>

Init == InitImport /\ InitDecodeIdle /\ InitRoundTripIdle /\ InitExportIdle

Next == SetupExperiment \/ ReadTable \/ LoadLedger \/ ImportRow \/ WriteImportSummary

Spec == Init /\ [][Next]_vars

-----------------------------------------------------------------------------
(* Claims about import_runs, under Spec.                                   *)

RowIndices == 0..(Len(runs_df) - 1)
RaisedIndices == {r.index : r \in raised_rows}
\* the runs created for row i that were counted in imported_runs
ImportsOf(i) == {j \in 1..Len(imported_runs) : dest_runs[imported_runs[j]].source = i}
Succeeded(i) == ImportsOf(i) # {}
Failed(i) == InList(i, failed_runs)
\* the rows whose metric field is filled with something float() rejects
UnparsableRows ==
    {i \in RowIndices :
        /\ ~ IsNa(RowGet(runs_df[i + 1], ColMetricA))
        /\ ~ PyFloat(RowGet(runs_df[i + 1], ColMetricA)).ok}
Ascending(l) == \A a, b \in 1..Len(l) : a < b => l[a] < l[b]

\* C3 as claimed: when exactly one row k holds an unparsable metric value and no
\* call to the tracking server raises, row k is the one failed row and every other
\* row is imported.
C3_UnparsableMetricFailsRow ==
    (imp_pc = "done" /\ Cardinality(UnparsableRows) = 1
        /\ \A r \in raised_rows : r.at = "extract_run_data") =>
        /\ \A k \in UnparsableRows : failed_runs = <<k>>
        /\ \A i \in RowIndices \ UnparsableRows : Succeeded(i)

\* C3 as amended: when exactly one row k raises an exception while it is imported,
\* every other row is imported (its run FINISHED) and failed_run_indices is [k]; an
\* unparsable metric value is no such failure: unless something else raises, its row
\* is imported without that metric, a warning is printed, and it is not reported failed.
C3_PartialFailureIsolation ==
    imp_pc = "done" =>
        /\ \A k \in RowIndices :
              RaisedIndices = {k} =>
                  /\ summary[1].failed_run_indices = <<k>>
                  /\ \A i \in RowIndices \ {k} :
                        /\ Succeeded(i)
                        /\ \A j \in ImportsOf(i) : dest_runs[imported_runs[j]].status = "FINISHED"
        /\ \A i \in UnparsableRows \ RaisedIndices :
              /\ Succeeded(i) /\ ~ Failed(i)
              /\ \A j \in ImportsOf(i) : NameA \notin DOMAIN dest_runs[imported_runs[j]].metrics
              /\ InList([msg |-> "could_not_convert", name |-> NameA], imp_log)

\* C3 witness: of two rows the first raised and the second, whose metric is
\* unparsable, was imported
C3_Witness ==
    /\ imp_pc = "done"
    /\ Len(runs_df) = 2
    /\ RaisedIndices = {0}
    /\ UnparsableRows = {1}
    /\ failed_runs = <<0>>
    /\ Succeeded(1)

\* C4: import driver row state machine.  When import_runs returns, all rows were
\* visited in order, every row is exactly one of succeeded or failed,
\* total_runs_attempted = successful_imports + failed_imports, and
\* failed_run_indices lists exactly the rows that raised, in table order.
C4_RowStateMachine ==
    imp_pc = "done" =>
        /\ index = Len(runs_df)
        /\ \A i \in RowIndices : Succeeded(i) # Failed(i)
        /\ summary[1].total_runs_attempted = Len(runs_df)
        /\ summary[1].total_runs_attempted
              = summary[1].successful_imports + summary[1].failed_imports
        /\ {summary[1].failed_run_indices[j] : j \in 1..Len(failed_runs)} = RaisedIndices
        /\ Ascending(summary[1].failed_run_indices)

\* what does hold: the same, for the imports in which no exit of the with block raised
RowStateMachineUnlessExitRaises ==
    (imp_pc = "done" /\ \A r \in raised_rows : r.at # "end_run") =>
        /\ index = Len(runs_df)
        /\ \A i \in RowIndices : Succeeded(i) # Failed(i)
        /\ summary[1].total_runs_attempted
              = summary[1].successful_imports + summary[1].failed_imports
        /\ {summary[1].failed_run_indices[j] : j \in 1..Len(failed_runs)} = RaisedIndices
        /\ Ascending(summary[1].failed_run_indices)

LedgerUnusable ==
    \/ ledger_file.state \in {"absent", "invalid"}
    \/ ~ ({"parameters", "metrics", "tags"} \subseteq DOMAIN ledger_file.content)

\* C8: ledger load tolerance.  When the ledger file is missing, unreadable or lacks
\* one of the three lists, the rows are decoded with three empty ledger lists and no
\* row fails in extract_run_data.
C8_LedgerLoadTolerance ==
    (imp_pc \in {"rows", "summary", "done"} /\ LedgerUnusable) =>
        /\ imp_metadata = EmptyMetadata
        /\ \A r \in raised_rows : r.at # "extract_run_data"

\* what does hold: a ledger file that is missing or is not JSON leaves the three
\* empty lists
LedgerAbsentOrInvalidTolerated ==
    (imp_pc \in {"rows", "summary", "done"} /\ ledger_file.state \in {"absent", "invalid"}) =>
        /\ imp_metadata = EmptyMetadata
        /\ \A r \in raised_rows : r.at # "extract_run_data"

\* the import direction of C9, which does hold: a file whose upload raised is
\* skipped, the other files of the row are uploaded and the row still counts as
\* succeeded
ImportArtifactIsolation ==
    \A d \in 1..Len(dest_runs) :
        dest_runs[d].status \in {"FINISHED", "RUNNING"} =>
            /\ InList(d, imported_runs)
            /\ dest_runs[d].artifacts =
                  {f \in 1..(IF import_artifacts THEN artifact_tree[dest_runs[d].source + 1] ELSE 0) :
                      <<dest_runs[d].source, f>> \notin upload_raised}

\* a column named col can give the entry k of the group whose prefix is p: it is the
\* prefixed column p k, or the bare column k
ColumnYields(col, p, k) == col = p \o k \/ (~ HasPrefix(col) /\ col = k)

\* C13: null skip across heterogeneous runs.  Every entry of the parameters, metrics
\* and tags of every run created by the import comes from a column that is non-null
\* in the row of that run: a column that is empty in the row gives no entry to any
\* group, whatever the other rows of the table hold in it.
C13_NullSkip ==
    \A d \in 1..Len(dest_runs) :
        LET row == runs_df[dest_runs[d].source + 1]
        IN  \A g \in LedgerGroups :
                \A k \in DOMAIN dest_runs[d][g.items] :
                    \E j \in 1..Len(row) :
                        /\ ~ IsNa(row[j].val)
                        /\ row[j].col \notin system_columns
                        /\ ColumnYields(row[j].col, g.prefix, k)

\* C13 witness: a table of two rows with different empty columns; the run of the
\* second row, whose metric:a is empty, is imported without the metric a, the run
\* of the first row, whose bare column is empty, with it
C13_Witness ==
    /\ imp_pc = "done"
    /\ Len(runs_df) = 2
    /\ Len(dest_runs) = 2
    /\ \A d \in 1..2 : dest_runs[d].source = d - 1 /\ dest_runs[d].status = "FINISHED"
    /\ IsNa(RowGet(runs_df[1], ColB)) /\ ~ IsNa(RowGet(runs_df[1], ColMetricA))
    /\ IsNa(RowGet(runs_df[2], ColMetricA)) /\ ~ IsNa(RowGet(runs_df[2], ColB))
    /\ NameA \in DOMAIN dest_runs[1].metrics
    /\ NameA \notin DOMAIN dest_runs[2].metrics
    /\ dest_runs[2].params # EmptyDict

====
